---- MODULE Spec2Model ----
(***************************************************************************)
(* wmfocus: one selection session of main() in src/main.rs.                *)
(*                                                                         *)
(* The session is: the per-target setup loop (hint allocation, marker      *)
(* window creation, insertion into render_windows), the two input grabs,   *)
(* and the event loop that runs until `closed`.                            *)
(*                                                                         *)
(* Characters are one-letter strings, a hint (label) or a key name is a    *)
(* sequence of characters.                                                 *)
(***************************************************************************)
EXTENDS Integers, Sequences, FiniteSets, TLC

\* ---------------------------------------------------------------- bounds
\* Largest number of desktop windows handed to one session.
MaxTargets == 4
\* Largest size of the shortened alphabets (prefixes of HINT_CHARS) explored
\* besides HINT_CHARS itself.
MaxK == 3
\* Largest number of events one session takes from wait_for_event.
MaxEvents == 3

\* ------------------------------------------------------------- constants
\* static HINT_CHARS: &'static str = "sadfjklewcmpgh";
HINT_CHARS == <<"s", "a", "d", "f", "j", "k", "l", "e", "w", "c", "m", "p", "g", "h">>

\* The alphabets get_next_hint is called with.  main always passes
\* HINT_CHARS; its prefixes of 2..MaxK characters exercise, within
\* MaxTargets windows, what HINT_CHARS does with more than 14 windows, and
\* its prefixes of 0 and 1 characters are the alphabets that are insufficient.
Alphabets ==
    {SubSeq(HINT_CHARS, 1, k) : k \in 0..MaxK} \cup {HINT_CHARS}

\* XKeysymToString(XK_Escape)
EscapeName == <<"E", "s", "c", "a", "p", "e">>

\* A key of the keyboard: its keysym (column 0) and the keysym's name.
\* `named` is FALSE for a keycode without a keysym (NoSymbol), for which
\* XKeysymToString returns NULL.
Keys(chars) ==
    {[ksym |-> chars[j], named |-> TRUE, kstr |-> <<chars[j]>>] : j \in 1..Len(chars)}
    \cup {[ksym |-> "Escape", named |-> TRUE, kstr |-> EscapeName],
          [ksym |-> "x", named |-> TRUE, kstr |-> <<"x">>],
          [ksym |-> "NoSymbol", named |-> FALSE, kstr |-> <<>>]}

\* --------------------------------------------------- utils::get_next_hint
RECURSIVE Pow(_, _)
Pow(b, e) == IF e = 0 THEN 1 ELSE b * Pow(b, e - 1)

\* The shallowest depth whose pool of k^d strings holds max_count labels.
RECURSIVE SizeFrom(_, _, _)
SizeFrom(k, max_count, d) ==
    IF Pow(k, d) >= max_count THEN d ELSE SizeFrom(k, max_count, d + 1)

size_required(hint_chars, max_count) == SizeFrom(Len(hint_chars), max_count, 1)

\* The n-th string (n >= 0) of length d over hint_chars, in the order of the
\* alphabet: the digits of n in base k, most significant first.
NthHint(n, d, hint_chars) ==
    LET k == Len(hint_chars)
    IN  [j \in 1..d |-> hint_chars[((n \div Pow(k, d - j)) % k) + 1]]

\* InsufficientAlphabet: no prefix-free labelling of max_count distinct strings
\* exists over hint_chars (no character for a target, or one character for more
\* than one target).
InsufficientAlphabet(hint_chars, max_count) ==
    \/ Len(hint_chars) = 0 /\ max_count > 0
    \/ Len(hint_chars) = 1 /\ max_count > 1

\* The next label for a session of max_count targets of which current_hints
\* are already reserved: the first unused string of the required depth.
get_next_hint(current_hints, hint_chars, max_count) ==
    LET d == size_required(hint_chars, max_count)
        free == {n \in 0..(Pow(Len(hint_chars), d) - 1) :
                    NthHint(n, d, hint_chars) \notin current_hints}
        first == CHOOSE n \in free : \A m \in free : n <= m
    IN  NthHint(first, d, hint_chars)

\* ----------------------------------------------------------- marker layout
\* An f64 is an integer number of thousandths of a pixel; the i32, i16 and u16
\* values are integers of pixels.  The inputs are multiples of a tenth of a
\* pixel, for which the products and halves below are exact.

\* f64::from(n)
F64(n) == n * 1000

\* a * b of two f64
Mul(a, b) == (a * b) \div 1000

\* f64::round: to the nearest integer, halves away from zero
Round(v) == IF v >= 0 THEN (v + 500) \div 1000 ELSE -((500 - v) \div 1000)

\* `n as u16` of an i32: the low 16 bits
AsU16(n) == n % 65536

\* `n as i16` of an i32: the low 16 bits, as a signed value
AsI16(n) == LET m == n % 65536 IN IF m >= 32768 THEN m - 65536 ELSE m

\* `v as u16` of an f64 that holds an integer: saturating
FloatAsU16(n) == IF n < 0 THEN 0 ELSE IF n > 65535 THEN 65535 ELSE n

\* let margin_factor = 1.0 + 0.2;
margin_factor(app_config) == 1200

\* width (height) of the marker window, from the target's width (height) and
\* the text's width (height).
MarkerLength(app_config, size, extent) ==
    IF app_config.fill
    THEN AsU16(size)
    ELSE FloatAsU16(Round(Mul(extent, margin_factor(app_config))))

\* Faulty variant of Margin: the margin is taken from the marker's rounded size.
MarginOfMarker(app_config, size, extent) ==
    (F64(MarkerLength(app_config, size, extent)) - extent) \div 2

\* margin_width (margin_height), an f64
Margin(app_config, size, extent) ==
    IF app_config.fill
    THEN (F64(size) - extent) \div 2
    ELSE (Mul(extent, margin_factor(app_config)) - extent) \div 2

\* draw_pos, from the text extents and the two margins
DrawPos(text_extents, margin_width, margin_height) ==
    <<margin_width - text_extents.x_bearing,
      text_extents.height + margin_height
          - (text_extents.height + text_extents.y_bearing)>>

\* Faulty variant of AlignX: Right puts the marker's origin on the far edge.
AlignXFarEdge(app_config, desktop_window, width) ==
    CASE app_config.horizontal_align = "Left" -> AsI16(desktop_window.pos[1])
      [] app_config.horizontal_align = "Center" ->
            AsI16(desktop_window.pos[1] + desktop_window.size[1] \div 2 - width \div 2)
      [] app_config.horizontal_align = "Right" ->
            AsI16(desktop_window.pos[1] + desktop_window.size[1])

\* let x = match app_config.horizontal_align
AlignX(app_config, desktop_window, width) ==
    CASE app_config.horizontal_align = "Left" -> AsI16(desktop_window.pos[1])
      [] app_config.horizontal_align = "Center" ->
            AsI16(desktop_window.pos[1] + desktop_window.size[1] \div 2 - width \div 2)
      [] app_config.horizontal_align = "Right" ->
            AsI16(desktop_window.pos[1] + desktop_window.size[1] - width)

\* let y = match app_config.vertical_align
AlignY(app_config, desktop_window, height) ==
    CASE app_config.vertical_align = "Top" -> AsI16(desktop_window.pos[2])
      [] app_config.vertical_align = "Center" ->
            AsI16(desktop_window.pos[2] + desktop_window.size[2] \div 2 - height \div 2)
      [] app_config.vertical_align = "Bottom" ->
            AsI16(desktop_window.pos[2] + desktop_window.size[2] - height)

\* utils::extents_for_text(&hint, font_family, font_size): what the text
\* measurement returns for the hint, from the metrics of one character in the
\* session's font.
extents_for_text(hint, text_metrics) ==
    [width |-> Len(hint) * text_metrics.width,
     height |-> text_metrics.height,
     x_bearing |-> text_metrics.x_bearing,
     y_bearing |-> text_metrics.y_bearing]

\* ------------------------------------------------------------------ state
VARIABLES
    app_config,        \* utils::parse_args(): fill, alignment, margin
    text_metrics,      \* the extents of one character in the session's font
    xcb_windows,       \* the marker windows created on the X server, by id
    hint_chars,        \* the alphabet of the session
    desktop_windows,   \* wm::get_windows(): the targets, in order
    i,                 \* index of the next target of the setup loop
    render_windows,    \* HashMap<String, RenderWindow>: hint -> marker
    mapped,            \* marker windows created and mapped on the X server
    pc,                \* "setup", "grab_pointer", "loop", "exited", "aborted"
    kbd_grab,          \* the X server holds this client's keyboard grab
    ptr_grab,          \* the X server holds this client's pointer grab
    grabs,             \* grabs acquired so far, per device
    ungrabs,           \* grabs released so far, per device
    closed,            \* let mut closed
    nevents,           \* events taken from wait_for_event
    last_event,        \* the event handled last
    typed,             \* the characters of the last keys pressed, as many as
                       \* the longest label has
    painted,           \* hint -> paint requests issued for its marker
    last_paint,        \* the paint requests of the last EXPOSE
    focus_requests     \* wm::focus_window calls: the targets, in order

vars == <<app_config, text_metrics, xcb_windows, hint_chars, desktop_windows, i,
          render_windows, mapped, pc, kbd_grab, ptr_grab, grabs, ungrabs, closed,
          nevents, last_event, typed, painted, last_paint, focus_requests>>

setup_vars == <<app_config, text_metrics, xcb_windows, hint_chars, desktop_windows,
                i, render_windows, mapped>>
grab_vars == <<kbd_grab, ptr_grab, grabs, ungrabs>>
loop_vars == <<closed, nevents, last_event, typed, painted, last_paint, focus_requests>>

NoEvent == [type |-> "INIT", ksym |-> "", kstr |-> <<>>]

\* DesktopWindow { id, title, pos, size }
DesktopWindow(id, pos, size) == [id |-> id, pos |-> pos, size |-> size]

\* The j-th window of a session: the windows of a session lie side by side.
SessionWindow(j) == DesktopWindow(j, <<300 * (j - 1), 20>>, <<300, 200 + 10 * j>>)

\* AppConfig: the fields the layout reads, and the margin it is given.
AppConfig(fill, horizontal_align, vertical_align, margin) ==
    [fill |-> fill, horizontal_align |-> horizontal_align,
     vertical_align |-> vertical_align, margin |-> margin]

\* The configurations of the sessions explored.
SessionConfigs ==
    {AppConfig(FALSE, "Left", "Top", 200), AppConfig(TRUE, "Center", "Center", 200)}

\* The metrics of one character in the sessions explored: 10 by 10 pixels.
SessionMetrics ==
    [width |-> 10000, height |-> 10000, x_bearing |-> 0, y_bearing |-> -10000]

\* The state main starts the setup loop in.
StartState ==
    /\ i = 1
    /\ xcb_windows = <<>>
    /\ render_windows = <<>>
    /\ mapped = 0
    /\ pc = "setup"
    /\ kbd_grab = FALSE
    /\ ptr_grab = FALSE
    /\ grabs = [kbd |-> 0, ptr |-> 0]
    /\ ungrabs = [kbd |-> 0, ptr |-> 0]
    /\ closed = FALSE
    /\ nevents = 0
    /\ last_event = NoEvent
    /\ typed = <<>>
    /\ painted = <<>>
    /\ last_paint = {}
    /\ focus_requests = <<>>

Init ==
    /\ hint_chars \in Alphabets
    /\ app_config \in SessionConfigs
    /\ text_metrics = SessionMetrics
    /\ \E n \in 0..MaxTargets :
           desktop_windows = [j \in 1..n |-> SessionWindow(j)]
    /\ StartState

\* ------------------------------------------------------------ setup loop
\* HashMap::insert: a new entry, or the replacement of the entry of the key.
Insert(map, key, value) ==
    [h \in (DOMAIN map) \cup {key} |-> IF h = key THEN value ELSE map[h]]

\* Faulty variant of current_hints_arg: the reserved labels are not passed on.
current_hints_none(rw) == {}

\* render_windows.keys().collect(): the first argument of get_next_hint.
current_hints_arg(rw) == DOMAIN rw

\* Faulty variant of max_count_arg: the number of targets still to be labelled
\* is passed instead of the number of targets of the session.
max_count_remaining(dw, rw) == Len(dw) - Cardinality(DOMAIN rw)

\* Faulty variant of max_count_arg: the number of targets labelled so far, the
\* one of the call included, is passed instead of the number of targets.
max_count_so_far(dw, rw) == Cardinality(DOMAIN rw) + 1

\* desktop_windows.len(): the third argument of get_next_hint.
max_count_arg(dw, rw) == Len(dw)

\* The marker of one target: the geometry of its window and the text origin.
Layout(config, desktop_window, text_extents) ==
    LET width == MarkerLength(config, desktop_window.size[1], text_extents.width)
        height == MarkerLength(config, desktop_window.size[2], text_extents.height)
        margin_width == Margin(config, desktop_window.size[1], text_extents.width)
        margin_height == Margin(config, desktop_window.size[2], text_extents.height)
    IN  [x |-> AlignX(config, desktop_window, width),
         y |-> AlignY(config, desktop_window, height),
         width |-> width,
         height |-> height,
         draw_pos |-> DrawPos(text_extents, margin_width, margin_height)]

\* Faulty variant of marker_target: every marker is bound to the first target.
marker_target_first(dw, j) == dw[1]

\* `desktop_window`: the target of the iteration, kept in the RenderWindow.
marker_target(dw, j) == dw[j]

\* One iteration of `for desktop_window in &desktop_windows`.
SetupWindow ==
    /\ pc = "setup"
    /\ i <= Len(desktop_windows)
    /\ ~InsufficientAlphabet(hint_chars, max_count_arg(desktop_windows, render_windows))
    /\ LET desktop_window == desktop_windows[i]
           hint == get_next_hint(current_hints_arg(render_windows), hint_chars,
                                 max_count_arg(desktop_windows, render_windows))
           text_extents == extents_for_text(hint, text_metrics)
           marker == Layout(app_config, desktop_window, text_extents)
           xcb_window_id == Len(xcb_windows) + 1
           render_window == [desktop_window |-> marker_target(desktop_windows, i),
                             cairo_context |-> xcb_window_id,
                             draw_pos |-> marker.draw_pos]
       IN  /\ xcb_windows' = Append(xcb_windows,
                                    [x |-> marker.x, y |-> marker.y,
                                     width |-> marker.width, height |-> marker.height])
           /\ render_windows' = Insert(render_windows, hint, render_window)
           /\ painted' = Insert(painted, hint, 0)
    /\ mapped' = mapped + 1
    /\ i' = i + 1
    /\ UNCHANGED <<app_config, text_metrics, hint_chars, desktop_windows, pc, last_paint>>
    /\ UNCHANGED grab_vars
    /\ UNCHANGED <<closed, nevents, last_event, typed, focus_requests>>

\* get_next_hint fails for the target of the iteration: the call does not
\* return and the process ends there.
SetupAbort ==
    /\ pc = "setup"
    /\ i <= Len(desktop_windows)
    /\ InsufficientAlphabet(hint_chars, max_count_arg(desktop_windows, render_windows))
    /\ pc' = "aborted"
    /\ kbd_grab' = FALSE
    /\ ptr_grab' = FALSE
    /\ UNCHANGED <<grabs, ungrabs>>
    /\ UNCHANGED setup_vars
    /\ UNCHANGED loop_vars

\* -------------------------------------------------------------- the grabs
\* The process ends (main returns, panics or is killed): its connection to the
\* X server closes, and the server releases the grabs the client holds.
ConnectionClosed ==
    /\ kbd_grab' = FALSE
    /\ ptr_grab' = FALSE
    /\ ungrabs' = [kbd |-> ungrabs.kbd + (IF kbd_grab THEN 1 ELSE 0),
                   ptr |-> ungrabs.ptr + (IF ptr_grab THEN 1 ELSE 0)]
    /\ grabs' = grabs

\* The replies a grab request can get: "Success" (the grab is held),
\* "AlreadyGrabbed" (a reply whose status is not Success: get_reply() is Ok and
\* the status is not looked at), "Error" (get_reply() is Err: expect panics).
GrabReplies == {"Success", "AlreadyGrabbed", "Error"}

\* xcb::xproto::grab_keyboard(...).get_reply().expect("Couldn't grab keyboard")
GrabKeyboard ==
    /\ pc = "setup"
    /\ i > Len(desktop_windows)
    /\ \E reply \in GrabReplies :
        \/ /\ reply = "Success"
           /\ kbd_grab' = TRUE
           /\ grabs' = [grabs EXCEPT !.kbd = @ + 1]
           /\ pc' = "grab_pointer"
           /\ UNCHANGED <<ptr_grab, ungrabs>>
        \/ /\ reply = "AlreadyGrabbed"
           /\ pc' = "grab_pointer"
           /\ UNCHANGED grab_vars
        \/ /\ reply = "Error"
           /\ pc' = "aborted"
           /\ ConnectionClosed
    /\ UNCHANGED setup_vars
    /\ UNCHANGED loop_vars

\* Variant of GrabPointer with a rendering phase: every marker is painted once
\* before the event loop is entered.
GrabPointerThenRender ==
    /\ pc = "grab_pointer"
    /\ \E reply \in GrabReplies :
        \/ /\ reply = "Success"
           /\ ptr_grab' = TRUE
           /\ grabs' = [grabs EXCEPT !.ptr = @ + 1]
           /\ pc' = "loop"
           /\ painted' = [h \in DOMAIN render_windows |-> painted[h] + 1]
           /\ UNCHANGED <<kbd_grab, ungrabs>>
        \/ /\ reply = "AlreadyGrabbed"
           /\ pc' = "loop"
           /\ painted' = [h \in DOMAIN render_windows |-> painted[h] + 1]
           /\ UNCHANGED grab_vars
        \/ /\ reply = "Error"
           /\ pc' = "aborted"
           /\ painted' = painted
           /\ ConnectionClosed
    /\ UNCHANGED setup_vars
    /\ UNCHANGED <<closed, nevents, last_event, typed, last_paint, focus_requests>>

\* xcb::xproto::grab_pointer(...).get_reply().expect("Couldn't grab mouse")
GrabPointer ==
    /\ pc = "grab_pointer"
    /\ \E reply \in GrabReplies :
        \/ /\ reply = "Success"
           /\ ptr_grab' = TRUE
           /\ grabs' = [grabs EXCEPT !.ptr = @ + 1]
           /\ pc' = "loop"
           /\ UNCHANGED <<kbd_grab, ungrabs>>
        \/ /\ reply = "AlreadyGrabbed"
           /\ pc' = "loop"
           /\ UNCHANGED grab_vars
        \/ /\ reply = "Error"
           /\ pc' = "aborted"
           /\ ConnectionClosed
    /\ UNCHANGED setup_vars
    /\ UNCHANGED loop_vars

\* --------------------------------------------------------- the event loop
\* `while !closed { let event = conn.wait_for_event(); ...`
Waiting == pc = "loop" /\ ~closed /\ nevents < MaxEvents

Event(type) == [type |-> type, ksym |-> "", kstr |-> <<>>]

\* The paint requests of one EXPOSE: for every entry of render_windows, the
\* background fill, then show_text(hint) on the entry's marker.
PaintRequests(rw) ==
    {[marker |-> h, ops |-> <<"paint", "show_text">>, text |-> h,
      window |-> rw[h].cairo_context, move_to |-> rw[h].draw_pos,
      render_window |-> rw[h]] : h \in DOMAIN rw}

\* None => closed = true
StreamEnd ==
    /\ Waiting
    /\ closed' = TRUE
    /\ nevents' = nevents + 1
    /\ last_event' = Event("NONE")
    /\ UNCHANGED <<typed, painted, last_paint, focus_requests, pc>>
    /\ UNCHANGED setup_vars
    /\ UNCHANGED grab_vars

\* Faulty variant of Expose: only one marker (the exposed window) is repainted.
ExposeOneMarker ==
    /\ Waiting
    /\ \/ /\ render_windows = <<>>
          /\ UNCHANGED <<last_paint, painted>>
       \/ \E h \in DOMAIN render_windows :
             /\ last_paint' = {p \in PaintRequests(render_windows) : p.marker = h}
             /\ painted' = [painted EXCEPT ![h] = @ + 1]
    /\ nevents' = nevents + 1
    /\ last_event' = Event("EXPOSE")
    /\ UNCHANGED <<closed, typed, focus_requests, pc>>
    /\ UNCHANGED setup_vars
    /\ UNCHANGED grab_vars

\* xcb::EXPOSE
Expose ==
    /\ Waiting
    /\ last_paint' = PaintRequests(render_windows)
    /\ painted' = [h \in DOMAIN render_windows |-> painted[h] + 1]
    /\ nevents' = nevents + 1
    /\ last_event' = Event("EXPOSE")
    /\ UNCHANGED <<closed, typed, focus_requests, pc>>
    /\ UNCHANGED setup_vars
    /\ UNCHANGED grab_vars

\* Faulty variant of ButtonPress: the click is consumed without closing.
ButtonPressIgnored ==
    /\ Waiting
    /\ nevents' = nevents + 1
    /\ last_event' = Event("BUTTON_PRESS")
    /\ UNCHANGED <<closed, typed, painted, last_paint, focus_requests, pc>>
    /\ UNCHANGED setup_vars
    /\ UNCHANGED grab_vars

\* xcb::BUTTON_PRESS => closed = true
ButtonPress ==
    /\ Waiting
    /\ closed' = TRUE
    /\ nevents' = nevents + 1
    /\ last_event' = Event("BUTTON_PRESS")
    /\ UNCHANGED <<typed, painted, last_paint, focus_requests, pc>>
    /\ UNCHANGED setup_vars
    /\ UNCHANGED grab_vars

\* _ => {}   (BUTTON_RELEASE and every other event)
OtherEvent ==
    /\ Waiting
    /\ nevents' = nevents + 1
    /\ last_event' = Event("OTHER")
    /\ UNCHANGED <<closed, typed, painted, last_paint, focus_requests, pc>>
    /\ UNCHANGED setup_vars
    /\ UNCHANGED grab_vars

\* Faulty variant of KeyLookup: the focus-request is for the first target of the
\* list, not for the target of the entry found.
KeyLookupFirstWindow(ksym, kstr) ==
    /\ closed' = ((ksym = "Escape") \/ (kstr \in DOMAIN render_windows))
    /\ focus_requests' =
           IF kstr \in DOMAIN render_windows
           THEN Append(focus_requests, desktop_windows[1].id)
           ELSE focus_requests
    /\ last_event' = [type |-> "KEY_PRESS", ksym |-> ksym, kstr |-> kstr]

\* Faulty variant of KeyLookup: a match issues the focus-request and the loop
\* goes on.
KeyLookupNoClose(ksym, kstr) ==
    /\ closed' = (ksym = "Escape")
    /\ focus_requests' =
           IF kstr \in DOMAIN render_windows
           THEN Append(focus_requests, render_windows[kstr].desktop_window.id)
           ELSE focus_requests
    /\ last_event' = [type |-> "KEY_PRESS", ksym |-> ksym, kstr |-> kstr]

\* Faulty variant of KeyLookup: the Escape test is missing.
KeyLookupNoEscape(ksym, kstr) ==
    /\ closed' = (kstr \in DOMAIN render_windows)
    /\ focus_requests' =
           IF kstr \in DOMAIN render_windows
           THEN Append(focus_requests, render_windows[kstr].desktop_window.id)
           ELSE focus_requests
    /\ last_event' = [type |-> "KEY_PRESS", ksym |-> ksym, kstr |-> kstr]

\* The KEY_PRESS branch once kstr is a string: the Escape test, then the
\* lookup of kstr in render_windows.
KeyLookup(ksym, kstr) ==
    /\ closed' = ((ksym = "Escape") \/ (kstr \in DOMAIN render_windows))
    /\ focus_requests' =
           IF kstr \in DOMAIN render_windows
           THEN Append(focus_requests, render_windows[kstr].desktop_window.id)
           ELSE focus_requests
    /\ last_event' = [type |-> "KEY_PRESS", ksym |-> ksym, kstr |-> kstr]

\* The length of the longest label of the session.
LongestLabel(rw) ==
    IF DOMAIN rw = {} THEN 0
    ELSE CHOOSE n \in {Len(h) : h \in DOMAIN rw} : \A h \in DOMAIN rw : Len(h) <= n

\* The last w characters of seq (all of seq when it has no more than w).
LastChars(seq, w) ==
    IF Len(seq) <= w THEN seq ELSE SubSeq(seq, Len(seq) - w + 1, Len(seq))

\* xcb::KEY_PRESS of a key whose keysym has a name.
KeyPress ==
    /\ Waiting
    /\ \E key \in Keys(hint_chars) :
        /\ key.named
        /\ KeyLookup(key.ksym, key.kstr)
        /\ typed' = IF Len(key.kstr) = 1
                    THEN LastChars(typed \o key.kstr, LongestLabel(render_windows))
                    ELSE typed
    /\ nevents' = nevents + 1
    /\ UNCHANGED <<painted, last_paint, pc>>
    /\ UNCHANGED setup_vars
    /\ UNCHANGED grab_vars

\* xcb::KEY_PRESS of a key without a keysym: XKeysymToString returns NULL and
\* CStr::from_ptr(NULL) is undefined behaviour.  The process is killed reading
\* address 0, or the read yields some string that is then looked up.
KeyPressUnnamed ==
    /\ Waiting
    /\ \E key \in Keys(hint_chars) :
        /\ ~key.named
        /\ \/ /\ pc' = "aborted"
              /\ last_event' = [type |-> "KEY_PRESS", ksym |-> key.ksym, kstr |-> <<>>]
              /\ ConnectionClosed
              /\ UNCHANGED <<closed, focus_requests>>
           \/ /\ \E garbage \in {k.kstr : k \in Keys(hint_chars)} :
                     KeyLookup(key.ksym, garbage)
              /\ UNCHANGED pc
              /\ UNCHANGED grab_vars
    /\ nevents' = nevents + 1
    /\ UNCHANGED <<typed, painted, last_paint>>
    /\ UNCHANGED setup_vars

\* Faulty variant of MainReturn: the loop is left and the connection, with the
\* grabs the server holds for it, stays open.
MainReturnKeepsConnection ==
    /\ pc = "loop"
    /\ closed
    /\ pc' = "exited"
    /\ UNCHANGED grab_vars
    /\ UNCHANGED setup_vars
    /\ UNCHANGED loop_vars

\* `while !closed` is false: main returns, conn is dropped.
MainReturn ==
    /\ pc = "loop"
    /\ closed
    /\ pc' = "exited"
    /\ ConnectionClosed
    /\ UNCHANGED setup_vars
    /\ UNCHANGED loop_vars

Next ==
    \/ SetupWindow
    \/ SetupAbort
    \/ GrabKeyboard
    \/ GrabPointer
    \/ StreamEnd
    \/ Expose
    \/ ButtonPress
    \/ OtherEvent
    \/ KeyPress
    \/ KeyPressUnnamed
    \/ MainReturn

Spec == Init /\ [][Next]_vars

\* -------------------------------------------- the layout of one marker
\* Target rectangles <<x, y, w, h>>: inside a screen, at the ends of the
\* 16-bit ranges of an X window's geometry, and beyond them.
Rects ==
    {<<100, 100, 200, 50>>, <<0, 0, 0, 0>>, <<-5, -7, 1921, 1081>>,
     <<-32768, 32767, 65535, 65535>>, <<32000, 32000, 2000, 700>>,
     <<40000, 10, 300, 200>>, <<10, -40000, 300, 200>>,
     <<0, 0, 65536, 200>>, <<0, 0, 300, 70000>>}

\* Metrics of one character: 10 by 10 pixels, and sizes whose product with the
\* margin factor is not a whole number of pixels.
Metrics ==
    {[width |-> 10000, height |-> 10000, x_bearing |-> 0, y_bearing |-> -10000],
     [width |-> 16700, height |-> 10400, x_bearing |-> 1000, y_bearing |-> -9500],
     [width |-> 7900, height |-> 12100, x_bearing |-> -500, y_bearing |-> -12000]}

\* Every configuration of fill and alignment, with the default margin (0.2)
\* and another one (0.5).
Configs ==
    {AppConfig(fill, h, v, margin) :
        fill \in BOOLEAN, h \in {"Left", "Center", "Right"},
        v \in {"Top", "Center", "Bottom"}, margin \in {200, 500}}

\* A session of one target with any of these rectangles, metrics and
\* configurations; its only step is the setup of the target's marker.
LayoutInit ==
    /\ hint_chars = HINT_CHARS
    /\ app_config \in Configs
    /\ text_metrics \in Metrics
    /\ \E r \in Rects :
           desktop_windows = <<DesktopWindow(1, <<r[1], r[2]>>, <<r[3], r[4]>>)>>
    /\ StartState

LayoutNext == SetupWindow

LayoutSpec == LayoutInit /\ [][LayoutNext]_vars


\* ------------------------------------------------------- the session's terms
\* The labels of the session and the target a label is bound to.
Labels == DOMAIN render_windows
Target(h) == render_windows[h].desktop_window.id

\* The event handled last is a key press whose name is a label of the session.
KeyMatch == last_event.type = "KEY_PRESS" /\ last_event.kstr \in Labels
\* The event handled last is a press of the Escape key.
EscapeLast == last_event.type = "KEY_PRESS" /\ last_event.ksym = "Escape"
\* The event handled last is a pointer click or the end of the event stream.
CancelEvent == last_event.type \in {"BUTTON_PRESS", "NONE"}

\* The terminal states of the controller.
Resolved == closed /\ KeyMatch
Cancelled == closed /\ (EscapeLast \/ CancelEvent) /\ ~KeyMatch

IsPrefix(s, t) == Len(s) <= Len(t) /\ SubSeq(t, 1, Len(s)) = s

C2_AtMostOneFocus ==
    /\ [](/\ Len(focus_requests) <= 1
          /\ (focus_requests # <<>> => Resolved)
          /\ (Cancelled => focus_requests = <<>>))
    /\ [][focus_requests' # focus_requests =>
            /\ ~closed
            /\ closed'
            /\ KeyMatch'
            /\ Len(focus_requests') = Len(focus_requests) + 1]_vars

\* A session resolved after at least one earlier event.
C2_Witness ==
    /\ Resolved
    /\ nevents >= 2
    /\ Len(focus_requests) = 1

\* --------------------------------------------------------------------- C3
\* C3: every label of the session is selectable from the keyboard: once the
\* events of the session are exactly the keys that spell a label, one
\* character per key, the session is Resolved with the target of that label.
C3_TypedLabelResolves ==
    \A h \in Labels :
        (pc \in {"loop", "exited"} /\ nevents = Len(h) /\ typed = h) =>
            (closed /\ focus_requests = <<Target(h)>>)

\* --------------------------------------------------------------------- C4
\* C4: after a press of Escape the session is closed (Cancelled) and no
\* focus-request has been issued, by that event or earlier; nothing but main
\* returning follows, no focus-request is issued later, and once main has
\* returned each grab that was acquired has been released exactly once and
\* none is held.
C4_EscapeCancels ==
    /\ [](EscapeLast =>
            /\ closed
            /\ focus_requests = <<>>
            /\ grabs.kbd <= 1 /\ grabs.ptr <= 1
            /\ (pc = "loop" => ungrabs = [kbd |-> 0, ptr |-> 0])
            /\ (pc = "exited" => /\ ~kbd_grab
                                 /\ ~ptr_grab
                                 /\ ungrabs = grabs))
    /\ [][EscapeLast => (pc' = "exited" /\ focus_requests' = <<>>)]_vars

\* Escape pressed with both grabs held; main has returned and both are released.
C4_Witness ==
    /\ EscapeLast
    /\ pc = "exited"
    /\ Labels # {}
    /\ grabs = [kbd |-> 1, ptr |-> 1]
    /\ ungrabs = [kbd |-> 1, ptr |-> 1]

\* --------------------------------------------------------------------- C5
\* C5: a pointer click and the end of the event stream each close the session
\* without a focus-request, as Escape does: the handling step sets closed and
\* changes nothing else of the session, and the only step that follows is main
\* returning.
C5_ClickAndStreamEndCancel ==
    /\ [](CancelEvent =>
            /\ Cancelled
            /\ focus_requests = <<>>
            /\ pc \in {"loop", "exited"})
    /\ [][(CancelEvent' /\ ~CancelEvent) =>
            /\ closed'
            /\ UNCHANGED <<focus_requests, painted, last_paint, typed, render_windows>>]_vars
    /\ [][CancelEvent => (pc = "loop" /\ pc' = "exited" /\ UNCHANGED loop_vars)]_vars

\* The stream ended on a session with markers, after an earlier event, and
\* main returned.
C5_Witness ==
    /\ last_event.type = "NONE"
    /\ pc = "exited"
    /\ nevents >= 2
    /\ Labels # {}

\* --------------------------------------------------------------------- C6
\* C6: on every way out of the session (main returned after Resolved or
\* Cancelled, or the process was aborted) no grab is held and every grab that
\* was acquired has been released; a closed session can only go on to return.
C6_GrabsReleasedOnExit ==
    /\ [](pc \in {"exited", "aborted"} =>
            /\ ~kbd_grab
            /\ ~ptr_grab
            /\ ungrabs = grabs)
    /\ [][(closed /\ pc = "loop") => pc' = "exited"]_vars

\* A Resolved session that held both grabs has returned and holds none.
C6_Witness ==
    /\ pc = "exited"
    /\ Resolved
    /\ grabs = [kbd |-> 1, ptr |-> 1]
    /\ ~kbd_grab
    /\ ~ptr_grab

\* --------------------------------------------------------------------- C7
\* The step handles an EXPOSE event.
ExposeStep == nevents' = nevents + 1 /\ last_event'.type = "EXPOSE"

\* C7: handling an EXPOSE issues exactly one paint request per marker
\* (background fill, then the label as text, on the marker of that label),
\* raises every marker's paint count by one and changes nothing else: the
\* label-to-marker map, closed, the focus-requests and the grabs are as before
\* and the session stays in the loop; a later EXPOSE issues the same requests
\* as the one before it.
C7_ExposeRepaintsOnly ==
    [][ExposeStep =>
        /\ Cardinality(last_paint') = Cardinality(Labels)
        /\ \A h \in Labels :
              /\ \E p \in last_paint' :
                    /\ p.marker = h
                    /\ p.text = h
                    /\ p.ops = <<"paint", "show_text">>
                    /\ p.render_window = render_windows[h]
              /\ painted'[h] = painted[h] + 1
        /\ (\E h \in Labels : painted[h] > 0) => last_paint' = last_paint
        /\ ~closed'
        /\ pc' = "loop"
        /\ UNCHANGED <<render_windows, desktop_windows, closed, focus_requests, typed>>
        /\ UNCHANGED grab_vars]_vars

\* Two EXPOSE events handled on a session of at least two markers.
C7_Witness ==
    /\ last_event.type = "EXPOSE"
    /\ Cardinality(Labels) >= 2
    /\ \A h \in Labels : painted[h] >= 2
    /\ ~closed

C9_OneLabelPerTarget ==
    /\ [](/\ Cardinality(Labels) = i - 1
          /\ \A t \in 1..(i - 1) : Cardinality({h \in Labels : Target(h) = t}) = 1
          /\ (i > Len(desktop_windows) => Cardinality(Labels) = Len(desktop_windows)))
    /\ [][i' # i =>
            /\ Cardinality(DOMAIN render_windows') = Cardinality(Labels) + 1
            /\ \A h \in Labels :
                  /\ h \in DOMAIN render_windows'
                  /\ render_windows'[h] = render_windows[h]]_vars

\* Setup of the largest target list is complete and the loop is entered.
C9_Witness ==
    /\ pc = "loop"
    /\ Len(desktop_windows) >= 3
    /\ Cardinality(Labels) = Len(desktop_windows)

AllocationFailed == pc = "aborted" /\ i <= Len(desktop_windows)

\* C11: when hint allocation fails with InsufficientAlphabet, setup is aborted
\* before any marker window has been created, mapped or painted and before any
\* grab is requested: the failure is that of the first target, no marker is
\* ever shown, no grab is taken and no event is handled.
C11_AbortBeforeAnyMarker ==
    /\ [](AllocationFailed =>
            /\ i = 1
            /\ InsufficientAlphabet(hint_chars, Len(desktop_windows))
            /\ xcb_windows = <<>>
            /\ mapped = 0
            /\ render_windows = <<>>
            /\ last_paint = {}
            /\ grabs = [kbd |-> 0, ptr |-> 0]
            /\ ~kbd_grab
            /\ ~ptr_grab
            /\ nevents = 0
            /\ focus_requests = <<>>)
    /\ [][AllocationFailed => UNCHANGED vars]_vars
    /\ [](InsufficientAlphabet(hint_chars, Len(desktop_windows)) =>
            (mapped = 0 /\ pc \in {"setup", "aborted"}))

\* Allocation failed for a session of several targets over a one-character
\* alphabet, which has a label for one target only.
C11_Witness ==
    /\ AllocationFailed
    /\ Len(hint_chars) = 1
    /\ Len(desktop_windows) >= 2
    /\ mapped = 0

\* -------------------------------------------------------------------- C12
\* C12: after a key press whose keysym has no name, the session is still
\* listening: the process has not aborted, the session is not closed and no
\* focus-request has been issued.
C12_UnnamedKeyIgnored ==
    (last_event.type = "KEY_PRESS" /\ last_event.ksym = "NoSymbol") =>
        /\ pc = "loop"
        /\ ~closed
        /\ focus_requests = <<>>

\* -------------------------------------------------------------------- C17
\* C17: the event loop is entered, and every event is handled, with both grabs
\* held, each acquired exactly once.
C17_LoopHoldsBothGrabs ==
    pc = "loop" =>
        /\ kbd_grab
        /\ ptr_grab
        /\ grabs = [kbd |-> 1, ptr |-> 1]

\* ------------------------------------------------------ layout vocabulary
\* The marker window created for label h, its target and the extents of its text.
MarkerOf(h) == xcb_windows[render_windows[h].cairo_context]
TargetOf(h) == render_windows[h].desktop_window
ExtentsOf(h) == extents_for_text(h, text_metrics)

\* The margins used for the text origin of label h, read back from draw_pos.
MarginXOf(h) == render_windows[h].draw_pos[1] + ExtentsOf(h).x_bearing
MarginYOf(h) == render_windows[h].draw_pos[2] + ExtentsOf(h).y_bearing

\* The margin factor the configuration gives: one plus the configured margin.
ConfiguredMarginFactor == 1000 + app_config.margin

\* The rectangle can be the geometry of an X window: a 16-bit signed position
\* and a 16-bit unsigned size.
Expressible(dw) ==
    /\ dw.pos[1] \in -32768..32767
    /\ dw.pos[2] \in -32768..32767
    /\ dw.size[1] \in 0..65535
    /\ dw.size[2] \in 0..65535

\* -------------------------------------------------------------------- C13
\* C13: with fill = false, the marker's width and height are the text's width
\* and height times the margin factor given in the configuration, rounded to
\* the nearest pixel, and the text origin is (margin_x - x_bearing,
\* height + margin_y - (height + y_bearing)) with the margins half the padding.
C13_ConfiguredMarginFactor ==
    \A h \in Labels :
        ~app_config.fill =>
            LET e == ExtentsOf(h)
                w == Mul(e.width, ConfiguredMarginFactor)
                t == Mul(e.height, ConfiguredMarginFactor)
            IN  /\ MarkerOf(h).width = Round(w)
                /\ MarkerOf(h).height = Round(t)
                /\ render_windows[h].draw_pos =
                       <<(w - e.width) \div 2 - e.x_bearing,
                         e.height + (t - e.height) \div 2 - (e.height + e.y_bearing)>>

C15_AlignedUnwrapped ==
    \A h \in Labels :
        LET m == MarkerOf(h)
            t == TargetOf(h)
        IN  /\ app_config.horizontal_align = "Left" => m.x = t.pos[1]
            /\ app_config.horizontal_align = "Right" =>
                   m.x + m.width = t.pos[1] + t.size[1]
            /\ app_config.horizontal_align = "Center" =>
                   m.x = t.pos[1] + t.size[1] \div 2 - m.width \div 2
            /\ app_config.vertical_align = "Top" => m.y = t.pos[2]
            /\ app_config.vertical_align = "Bottom" =>
                   m.y + m.height = t.pos[2] + t.size[2]
            /\ app_config.vertical_align = "Center" =>
                   m.y = t.pos[2] + t.size[2] \div 2 - m.height \div 2

\* -------------------------------------------------------------------- C16
\* The claim as stated: in both modes the margins of the text origin are half
\* the difference between the marker's actual size and the text's size.
C16_MarginOfActualSize ==
    \A h \in Labels :
        /\ MarginXOf(h) = (F64(MarkerOf(h).width) - ExtentsOf(h).width) \div 2
        /\ MarginYOf(h) = (F64(MarkerOf(h).height) - ExtentsOf(h).height) \div 2

\* C16: the margins of the text origin are half the difference between the
\* size the marker is meant to have and the text's size: with fill the
\* target's size, otherwise the text's size times 1.2 before rounding.  They
\* differ from the margins of the marker's actual size by less than half a
\* pixel without fill, and not at all with fill on a target whose size is
\* expressible.
C16_MarginOfIntendedSize ==
    \A h \in Labels :
        LET e == ExtentsOf(h)
            t == TargetOf(h)
            m == MarkerOf(h)
        IN  /\ app_config.fill =>
                  /\ MarginXOf(h) = (F64(t.size[1]) - e.width) \div 2
                  /\ MarginYOf(h) = (F64(t.size[2]) - e.height) \div 2
                  /\ Expressible(t) =>
                        /\ MarginXOf(h) = (F64(m.width) - e.width) \div 2
                        /\ MarginYOf(h) = (F64(m.height) - e.height) \div 2
            /\ ~app_config.fill =>
                  /\ MarginXOf(h) = (Mul(e.width, 1200) - e.width) \div 2
                  /\ MarginYOf(h) = (Mul(e.height, 1200) - e.height) \div 2
                  /\ 2 * MarginXOf(h) - (F64(m.width) - e.width) \in -500..500
                  /\ 2 * MarginYOf(h) - (F64(m.height) - e.height) \in -500..500

\* A marker without fill whose text is 16.7 pixels wide: the marker is 20
\* pixels wide and the margin is 1.67 pixels, not 1.65.
C16_Witness ==
    /\ ~app_config.fill
    /\ \E h \in Labels :
          /\ ExtentsOf(h).width = 16700
          /\ MarkerOf(h).width = 20
          /\ MarginXOf(h) = 1670

\* -------------------------------------------------------------------- C18
\* C18: the binding of a label to its target is the same wherever it is used.
\* For every label of the session map: its target is a target of the session, no
\* other label has that target or that marker window; the marker window has the
\* geometry laid out against that target for that label's text; every paint
\* request draws the label itself on its own marker window at its own origin;
\* and a key press naming the label asks the focus for that target.  An entry
\* of the map never changes once inserted, and no step after setup changes the
\* map or the marker windows.
C18_BindingConsistent ==
    /\ [](\A h \in Labels :
            LET rw == render_windows[h]
                marker == Layout(app_config, rw.desktop_window, ExtentsOf(h))
            IN  /\ \E j \in 1..Len(desktop_windows) : rw.desktop_window = desktop_windows[j]
                /\ \A g \in Labels :
                      g # h => /\ TargetOf(g).id # rw.desktop_window.id
                               /\ render_windows[g].cairo_context # rw.cairo_context
                /\ rw.cairo_context \in 1..Len(xcb_windows)
                /\ MarkerOf(h) = [x |-> marker.x, y |-> marker.y,
                                  width |-> marker.width, height |-> marker.height]
                /\ rw.draw_pos = marker.draw_pos)
    /\ [](\A req \in last_paint :
            /\ req.text \in Labels
            /\ req.window = render_windows[req.text].cairo_context
            /\ req.move_to = render_windows[req.text].draw_pos)
    /\ [](KeyMatch => focus_requests = <<TargetOf(last_event.kstr).id>>)
    /\ [][\A h \in Labels : h \in DOMAIN render_windows' /\ render_windows'[h] = render_windows[h]]_vars
    /\ [][pc # "setup" => UNCHANGED <<render_windows, xcb_windows, desktop_windows>>]_vars

\* A session of several targets was exposed, every marker painted, and then
\* resolved to the target of its last label.
C18_Witness ==
    /\ Resolved
    /\ Len(desktop_windows) >= 3
    /\ Cardinality({req.window : req \in last_paint}) = Len(desktop_windows)
    /\ focus_requests = <<Len(desktop_windows)>>
    /\ MarkerOf(last_event.kstr).x = SessionWindow(Len(desktop_windows)).pos[1]
====
